---- MODULE Spec2Model ----
(***************************************************************************)
(* Equilibrium AMM (programs/equilibrium-core): the fixed-point math of    *)
(* state/math.rs and the create_pool / deposit / withdraw / swap handlers. *)
(*                                                                         *)
(* Machine integers: the program computes in u64.  The model computes in   *)
(* an unsigned word of WordBits bits, so that a value that leaves the      *)
(* range is visible: every +, -, * of the source is translated to its      *)
(* exact result t, the flag "t left the range" and the wrapped value       *)
(* t % 2^WordBits.  Rust defines what happens then by the build profile:   *)
(* with overflow-checks the operation panics (the instruction aborts),     *)
(* without it the value wraps.  The variable overflow_checks is that       *)
(* profile; both are possible builds of the same source.  A division by    *)
(* zero panics in every build.                                             *)
(***************************************************************************)
EXTENDS Integers, Sequences, FiniteSets, TLC

\* ------------------------------------------------------------------ bounds
WordBits == 20
MaxAmount == 1
MaxReserve == 2
MaxLpSupply == 6
MaxClock == 1

Modulus == 2 ^ WordBits
U64_MAX == Modulus - 1

\* --------------------------------------------------------- program constants
BASE_FEE == 1
MAX_FEE == 5
FEE_MULTIPLIER == 1
FEE_DENOMINATOR == 1000
BPS == 10000
NEWTON_ROUNDS == 255

\* ------------------------------------------------------- machine arithmetic
InRange(t) == t >= 0 /\ t < Modulus
Wrap(t) == t % Modulus

MulOvf(a, b) == a # 0 /\ b > U64_MAX \div a

RECURSIVE ShiftAddMul(_, _)
ShiftAddMul(a, b) ==
  IF b = 0 THEN 0
  ELSE ((IF b % 2 = 1 THEN a ELSE 0) + 2 * ShiftAddMul(a, b \div 2)) % Modulus

\* wrapping_mul: a * b modulo 2^WordBits
MulWrap(a, b) == IF MulOvf(a, b) THEN ShiftAddMul(a, b) ELSE a * b

Min(a, b) == IF a < b THEN a ELSE b

RECURSIVE SeqSum(_)
SeqSum(s) == IF s = <<>> THEN 0 ELSE Head(s) + SeqSum(Tail(s))

\* Results of the Option-returning functions: Some(val), None, or a panic.
\* ovf records that an intermediate value left the machine range.
Some(v, o) == [tag |-> "Some", val |-> v, ovf |-> o]
None(o) == [tag |-> "None", val |-> 0, ovf |-> o]
Panic == [tag |-> "Panic", val |-> 0, ovf |-> TRUE]

\* u64::pow: exponentiation by squaring with the crate's overflow behaviour
RECURSIVE PowLoop(_, _, _, _)
PowLoop(base, acc, exp, ovf) ==
  IF exp > 1
  THEN LET acc1 == IF exp % 2 = 1 THEN MulWrap(acc, base) ELSE acc
           o1 == exp % 2 = 1 /\ MulOvf(acc, base)
       IN PowLoop(MulWrap(base, base), acc1, exp \div 2, ovf \/ o1 \/ MulOvf(base, base))
  ELSE [val |-> MulWrap(acc, base), ovf |-> ovf \/ MulOvf(acc, base)]

pow(base, exp) == IF exp = 0 THEN [val |-> 1, ovf |-> FALSE] ELSE PowLoop(base, 1, exp, FALSE)

\* (x as f64).sqrt() as u64: the floor of the square root (exact below 2^53)
RECURSIVE SqrtBits(_, _, _)
SqrtBits(x, r, bit) ==
  IF bit = 0 THEN r
  ELSE SqrtBits(x, IF (r + bit) * (r + bit) <= x THEN r + bit ELSE r, bit \div 2)

sqrt(x) == SqrtBits(x, 0, 2 ^ (WordBits \div 2))

\* ------------------------------------------------------------ state/math.rs

AbsDiff(a, b) == IF a > b THEN a - b ELSE b - a

RECURSIVE total_deviation(_, _)
total_deviation(current_weights, target_weights) ==
  IF current_weights = <<>> \/ target_weights = <<>> THEN 0
  ELSE AbsDiff(Head(current_weights), Head(target_weights))
       + total_deviation(Tail(current_weights), Tail(target_weights))

\* calculate_dynamic_fee returning `fee` in place of `cmp::min(fee, MAX_FEE)`
calculate_dynamic_fee_uncapped(current_weights, target_weights) ==
  LET deviation_percentage == total_deviation(current_weights, target_weights) \div 100
  IN BASE_FEE + (deviation_percentage * FEE_MULTIPLIER) \div 10

calculate_dynamic_fee(current_weights, target_weights) ==
  LET deviation_percentage == total_deviation(current_weights, target_weights) \div 100
      fee == BASE_FEE + (deviation_percentage * FEE_MULTIPLIER) \div 10
  IN Min(fee, MAX_FEE)

\* ScanAmounts without the `if amount == 0 { return None }` test
RECURSIVE ScanAmountsNoZeroTest(_, _, _)
ScanAmountsNoZeroTest(amounts, i, acc) ==
  IF i > Len(amounts) THEN acc
  ELSE ScanAmountsNoZeroTest(amounts, i + 1,
         [sum |-> Wrap(acc.sum + amounts[i]),
          product |-> MulWrap(acc.product, amounts[i]),
          has_zero |-> FALSE,
          ovf |-> acc.ovf \/ ~InRange(acc.sum + amounts[i])
                          \/ MulOvf(acc.product, amounts[i])])

\* first loop of calculate_invariant: sum and product up to the first zero
RECURSIVE ScanAmounts(_, _, _)
ScanAmounts(amounts, i, acc) ==
  IF i > Len(amounts) THEN acc
  ELSE IF amounts[i] = 0 THEN [acc EXCEPT !.has_zero = TRUE]
  ELSE ScanAmounts(amounts, i + 1,
         [sum |-> Wrap(acc.sum + amounts[i]),
          product |-> MulWrap(acc.product, amounts[i]),
          has_zero |-> FALSE,
          ovf |-> acc.ovf \/ ~InRange(acc.sum + amounts[i])
                          \/ MulOvf(acc.product, amounts[i])])

\* inner loop: d_product = d_product * d / (amount * n)
RECURSIVE DProduct(_, _, _, _, _)
DProduct(amounts, n, d, i, acc) ==
  IF i > Len(amounts) \/ acc.div0 THEN acc
  ELSE LET den == MulWrap(amounts[i], n)
           num == MulWrap(acc.val, d)
       IN DProduct(amounts, n, d, i + 1,
            [val |-> IF den = 0 THEN 0 ELSE num \div den,
             ovf |-> acc.ovf \/ MulOvf(amounts[i], n) \/ MulOvf(acc.val, d),
             div0 |-> den = 0])

\* NewtonStep with d_p taken from the inner loop (d_product) instead of d
NewtonStepWithProduct(amounts, n, sum, ann, d) ==
  LET d_product == DProduct(amounts, n, d, 1, [val |-> d, ovf |-> FALSE, div0 |-> FALSE])
      d_p == d_product.val
      a1 == MulWrap(ann, sum)
      a2 == MulWrap(d_p, n)
      a3 == Wrap(a1 + a2)
      num == MulWrap(a3, d)
      b1 == Wrap(ann - 1)
      b2 == MulWrap(b1, d)
      b3 == MulWrap(n + 1, d_p)
      den == Wrap(b2 + b3)
  IN [d |-> IF den = 0 THEN 0 ELSE num \div den,
      ovf |-> d_product.ovf \/ MulOvf(ann, sum) \/ MulOvf(d_p, n) \/ ~InRange(a1 + a2)
              \/ MulOvf(a3, d) \/ ~InRange(ann - 1) \/ MulOvf(b1, d)
              \/ MulOvf(n + 1, d_p) \/ ~InRange(b2 + b3),
      div0 |-> d_product.div0 \/ den = 0]

\* NewtonStep with the denominator ann * d + (n + 1) * d_p, the `- 1` left out
NewtonStepAnnNotReduced(amounts, n, sum, ann, d) ==
  LET d_p == d
      d_product == DProduct(amounts, n, d, 1, [val |-> d, ovf |-> FALSE, div0 |-> FALSE])
      a1 == MulWrap(ann, sum)
      a2 == MulWrap(d_p, n)
      a3 == Wrap(a1 + a2)
      num == MulWrap(a3, d)
      b2 == MulWrap(ann, d)
      b3 == MulWrap(n + 1, d_p)
      den == Wrap(b2 + b3)
  IN [d |-> IF den = 0 THEN 0 ELSE num \div den,
      ovf |-> d_product.ovf \/ MulOvf(ann, sum) \/ MulOvf(d_p, n) \/ ~InRange(a1 + a2)
              \/ MulOvf(a3, d) \/ MulOvf(ann, d)
              \/ MulOvf(n + 1, d_p) \/ ~InRange(b2 + b3),
      div0 |-> d_product.div0 \/ den = 0]

\* one round of the Newton loop: the new d and the flags raised computing it
NewtonStep(amounts, n, sum, ann, d) ==
  LET d_p == d
      d_product == DProduct(amounts, n, d, 1, [val |-> d, ovf |-> FALSE, div0 |-> FALSE])
      a1 == MulWrap(ann, sum)
      a2 == MulWrap(d_p, n)
      a3 == Wrap(a1 + a2)
      num == MulWrap(a3, d)
      b1 == Wrap(ann - 1)
      b2 == MulWrap(b1, d)
      b3 == MulWrap(n + 1, d_p)
      den == Wrap(b2 + b3)
  IN [d |-> IF den = 0 THEN 0 ELSE num \div den,
      ovf |-> d_product.ovf \/ MulOvf(ann, sum) \/ MulOvf(d_p, n) \/ ~InRange(a1 + a2)
              \/ MulOvf(a3, d) \/ ~InRange(ann - 1) \/ MulOvf(b1, d)
              \/ MulOvf(n + 1, d_p) \/ ~InRange(b2 + b3),
      div0 |-> d_product.div0 \/ den = 0]

\* the loop state after a round that computed s from the state st:
\* st is [d, ovf, div0, done, rounds]; done is `if d.abs_diff(d_prev) <= 1 { break }`
AfterRound(st, s) ==
  [d |-> s.d, ovf |-> st.ovf \/ s.ovf, div0 |-> s.div0,
   done |-> s.div0 \/ AbsDiff(s.d, st.d) <= 1,
   rounds |-> st.rounds + 1]

\* the Newton loop `for _ in 0..255`, evaluated in blocks of at most 16
\* rounds to keep the evaluation shallow
RECURSIVE NewtonBlock(_, _, _, _, _, _)
NewtonBlock(amounts, n, sum, ann, st, k) ==
  IF k = 0 \/ st.done THEN st
  ELSE NewtonBlock(amounts, n, sum, ann,
                   AfterRound(st, NewtonStep(amounts, n, sum, ann, st.d)), k - 1)

RECURSIVE NewtonBlocks(_, _, _, _, _)
NewtonBlocks(amounts, n, sum, ann, st) ==
  IF st.rounds >= NEWTON_ROUNDS \/ st.done THEN st
  ELSE NewtonBlocks(amounts, n, sum, ann,
                    NewtonBlock(amounts, n, sum, ann, st, Min(16, NEWTON_ROUNDS - st.rounds)))

Newton(amounts, n, sum, ann, d) ==
  NewtonBlocks(amounts, n, sum, ann,
    [d |-> d, ovf |-> FALSE, div0 |-> FALSE, done |-> FALSE, rounds |-> 0])

\* the end of calculate_invariant: `Some(d)` after the loop `it`
InvariantAfterLoop(checks, ovf0, it) ==
  IF it.div0 \/ (checks /\ it.ovf) THEN [res |-> Panic, rounds |-> it.rounds, divided |-> TRUE]
  ELSE [res |-> Some(it.d, ovf0 \/ it.ovf), rounds |-> it.rounds, divided |-> TRUE]

\* calculate_invariant after its first loop `pre` and n.pow(n) `nn`
InvariantAfterScan(amounts, amplification, checks, n, pre, nn) ==
  IF checks /\ pre.ovf THEN [res |-> Panic, rounds |-> 0, divided |-> FALSE]
  ELSE IF pre.has_zero \/ pre.sum = 0 THEN [res |-> None(pre.ovf), rounds |-> 0, divided |-> FALSE]
  ELSE IF checks /\ (pre.ovf \/ nn.ovf \/ MulOvf(amplification, nn.val))
  THEN [res |-> Panic, rounds |-> 0, divided |-> FALSE]
  ELSE InvariantAfterLoop(checks, pre.ovf \/ nn.ovf \/ MulOvf(amplification, nn.val),
         Newton(amounts, n, pre.sum, MulWrap(amplification, nn.val), pre.sum))

\* the whole of calculate_invariant, with the number of Newton rounds it ran
\* and whether it reached a division
InvariantRun(amounts, amplification, checks) ==
  IF Len(amounts) = 0 THEN [res |-> None(FALSE), rounds |-> 0, divided |-> FALSE]
  ELSE InvariantAfterScan(amounts, amplification, checks, Len(amounts),
         ScanAmounts(amounts, 1, [sum |-> 0, product |-> 1, has_zero |-> FALSE, ovf |-> FALSE]),
         pow(Len(amounts), Len(amounts)))

calculate_invariant(amounts, amplification, checks) ==
  InvariantRun(amounts, amplification, checks).res

\* calculate_output_amount from the quadratic on: d is the invariant, ovf0
\* whether computing it overflowed
SolveOutput(x_amount, x_reserve, y_reserve, fee, amplification, checks, d, ovf0) ==
  LET fee_amount == MulWrap(x_amount, fee) \div FEE_DENOMINATOR
      x_amount_after_fee == Wrap(x_amount - fee_amount)
      new_x_reserve == Wrap(x_reserve + x_amount_after_fee)
      ann == MulWrap(amplification, 4)
      d3 == pow(d, 3)
      ann4 == MulWrap(4, ann)
      c_den == MulWrap(ann4, new_x_reserve)
      c_positive == IF c_den = 0 THEN 0 ELSE d3.val \div c_den
      a == 1
      b_num == MulWrap(ann, d)
      b_den == MulWrap(ann, new_x_reserve)
      b == IF b_den = 0 THEN 0 ELSE b_num \div b_den
      bb == MulWrap(b, b)
      c4 == MulWrap(MulWrap(4, a), c_positive)
      discriminant == Wrap(bb + c4)
      sqrt_discriminant == sqrt(discriminant)
      new_y_reserve == Wrap(b - sqrt_discriminant) \div (2 * a)
      y_amount == Wrap(y_reserve - new_y_reserve)
      div0 == c_den = 0 \/ b_den = 0
      ovf == ovf0 \/ MulOvf(x_amount, fee) \/ ~InRange(x_amount - fee_amount)
             \/ ~InRange(x_reserve + x_amount_after_fee) \/ MulOvf(amplification, 4)
             \/ d3.ovf \/ MulOvf(4, ann) \/ MulOvf(ann4, new_x_reserve)
             \/ MulOvf(ann, d) \/ MulOvf(ann, new_x_reserve) \/ MulOvf(b, b)
             \/ MulOvf(4, c_positive) \/ ~InRange(bb + c4)
             \/ ~InRange(b - sqrt_discriminant) \/ ~InRange(y_reserve - new_y_reserve)
  IN IF div0 \/ (checks /\ ovf) THEN Panic ELSE Some(y_amount, ovf)

\* calculate_output_amount once `calculate_invariant(&[x_reserve, y_reserve], ..)?` returned inv
OutputAfterInvariant(x_amount, x_reserve, y_reserve, fee, amplification, checks, inv) ==
  IF inv.tag # "Some" THEN inv
  ELSE SolveOutput(x_amount, x_reserve, y_reserve, fee, amplification, checks, inv.val, inv.ovf)

calculate_output_amount(x_amount, x_reserve, y_reserve, fee, amplification, checks) ==
  IF x_reserve = 0 \/ y_reserve = 0 THEN None(FALSE)
  ELSE OutputAfterInvariant(x_amount, x_reserve, y_reserve, fee, amplification, checks,
         calculate_invariant(<<x_reserve, y_reserve>>, amplification, checks))

\* the map of calculate_weights with the quotient rounded up
RECURSIVE WeightsOfRoundedUp(_, _, _)
WeightsOfRoundedUp(reserves, total, i) ==
  IF i > Len(reserves) THEN <<>>
  ELSE <<(MulWrap(reserves[i], BPS) + total - 1) \div total>>
       \o WeightsOfRoundedUp(reserves, total, i + 1)

\* `.map(|&reserve| (reserve * 10000) / total)`
RECURSIVE WeightsOf(_, _, _)
WeightsOf(reserves, total, i) ==
  IF i > Len(reserves) THEN <<>>
  ELSE <<MulWrap(reserves[i], BPS) \div total>> \o WeightsOf(reserves, total, i + 1)

\* calculate_weights: [val: the weights, ovf: a sum or product left the range,
\* divided: the map with its division ran]
calculate_weights(reserves) ==
  LET totalT == SeqSum(reserves)
      total == Wrap(totalT)
      ovf == ~InRange(totalT) \/ (\E i \in 1..Len(reserves) : MulOvf(reserves[i], BPS))
  IN IF total = 0
     THEN [val |-> [i \in 1..Len(reserves) |-> 0], ovf |-> ~InRange(totalT), divided |-> FALSE]
     ELSE [val |-> WeightsOf(reserves, total, 1), ovf |-> ovf, divided |-> TRUE]

calculate_position_bounds(center_price, concentration) ==
  LET increment == 5
      half_range == concentration * increment
      min_price == IF center_price > half_range THEN center_price - half_range ELSE 0
      max_price == center_price + half_range
  IN <<min_price, max_price>>


\* ------------------------------------------------------------ program state
Users == {"alice", "bob"}
PoolIds == {"seed", "g1", "g2"}
Mints == {"A", "B", "C", "S", "P"}

\* Deterministic addressing: the Seed pool is the PDA ["pool","seed"]; a Growth
\* pool is the PDA ["pool","growth",partner mint].  Its mint accounts, in the
\* order create_pool stores them in token_mints.
MintsOf(p) == IF p = "seed" THEN <<"A", "B", "C">> ELSE <<"S", "P">>

NoPool ==
  [exists |-> FALSE, pool_type |-> "None", token_mints |-> <<>>, reserves |-> <<>>,
   target_weights |-> <<>>, amplification |-> 0, total_fees |-> 0, last_update |-> 0,
   seed_pool |-> "None"]

\* UserPosition::default(): owner == Pubkey::default() until the first deposit
NoPosition ==
  [initialized |-> FALSE, lp_amount |-> 0, min_price |-> 0, max_price |-> 0,
   is_active |-> FALSE]

NoCall ==
  [op |-> "none", pool |-> "seed", user |-> "alice", result |-> "none", cpis |-> <<>>,
   touched |-> FALSE, args |-> <<>>, pre |-> <<>>, out |-> <<>>]

NoMath == [fn |-> "none", args |-> <<>>, out |-> <<>>]

VARIABLES
  overflow_checks,  \* build profile: TRUE = arithmetic overflow panics
  clock,            \* Clock::get()?.unix_timestamp
  pools,            \* Pool accounts, by address
  positions,        \* UserPosition accounts, by (pool, owner)
  vault,            \* custody: balance of the token accounts owned by a pool, per mint
  lp_supply,        \* custody: supply of each pool's LP mint
  lp_tokens,        \* custody: LP token balance per (pool, user)
  last,             \* the instruction being reported: arguments, result, requested CPIs
  focus,            \* the Pool account this run passes to deposit / withdraw / swap
  math              \* the last direct evaluation of a function of state/math.rs

vars == <<overflow_checks, clock, pools, positions, vault, lp_supply, lp_tokens, last, focus, math>>

\* --------------------------------------------------------- custody requests
Transfer(from, to, mint, amount) ==
  [kind |-> "transfer", from |-> from, to |-> to, mint |-> mint, amount |-> amount]
MintTo(p, u, amount) ==
  [kind |-> "mint_to", from |-> p, to |-> u, mint |-> "LP", amount |-> amount]
Burn(p, u, amount) ==
  [kind |-> "burn", from |-> u, to |-> p, mint |-> "LP", amount |-> amount]

IndexOf(seq, x) ==
  IF \E i \in 1..Len(seq) : seq[i] = x
  THEN CHOOSE i \in 1..Len(seq) : seq[i] = x /\ \A j \in 1..(i - 1) : seq[j] # x
  ELSE 0

Ones(n) == [i \in 1..n |-> 1]
Zeros(n) == [i \in 1..n |-> 0]

SatSub(a, b) == IF a > b THEN a - b ELSE 0
SatAdd(a, b) == IF a + b > U64_MAX THEN U64_MAX ELSE a + b

\* What a handler leaves behind when it returns: its result, the custody
\* requests it made up to that point, the in-memory accounts at that point and
\* the custody state after the requests that were executed.
Outcome(result, cpis, pool, position, v, supply, tokens, out) ==
  [result |-> result, cpis |-> cpis, pool |-> pool, position |-> position,
   vault |-> v, lp_supply |-> supply, lp_tokens |-> tokens, out |-> out]

\* a handler that returns r before it has requested or changed anything
Rejected(p, u, r, out) ==
  Outcome(r, <<>>, pools[p], positions[p][u], vault[p], lp_supply[p], lp_tokens[p][u], out)

\* a handler that returns r after the requests cpis, with the pool account pl
\* in memory and the custody balances vv; position and LP mint untouched
Interrupted(p, u, r, cpis, pl, vv, out) ==
  Outcome(r, cpis, pl, positions[p][u], vv, lp_supply[p], lp_tokens[p][u], out)

\* ------------------------------------------------------ instructions/swap.rs
\* seeds the swap handler signs the outgoing transfer with are the pool's own
SwapSignerOk(pool, token_in_idx) ==
  IF pool.pool_type = "Growth"
  THEN LET partner_idx == IF token_in_idx = 1 THEN 2 ELSE 1
       IN pool.token_mints[partner_idx] = pool.token_mints[2]
  ELSE TRUE

\* swap.rs 98-164: the slippage test, the two transfers, the reserve update;
\* res is what calculate_output_amount returned
SwapSettle(p, u, token_mint_in, token_mint_out, amount_in, min_amount_out, token_in_idx, token_out_idx, fee, weights_ovf, res) ==
  LET pool == pools[p]
      amount_out == res.val
      out == [fee |-> fee, amount_out |-> amount_out, ovf |-> res.ovf \/ weights_ovf]
      cpi_in == Transfer(u, p, token_mint_in, amount_in)
      cpi_out == Transfer(p, u, token_mint_out, amount_out)
      v1 == [vault[p] EXCEPT ![token_mint_in] = @ + amount_in]
      r_in == pool.reserves[token_in_idx] + amount_in
      reserves1 == [pool.reserves EXCEPT ![token_in_idx] = Wrap(r_in)]
  IN IF res.tag = "None" THEN Rejected(p, u, "InvalidSwap", out)
     ELSE IF res.tag = "Panic" THEN Rejected(p, u, "Panic", out)
     ELSE IF ~(amount_out >= min_amount_out) THEN Rejected(p, u, "SlippageExceeded", out)
     ELSE IF v1[token_mint_in] > U64_MAX
     THEN Interrupted(p, u, "TokenError", <<cpi_in>>, pool, vault[p], out)
     ELSE IF ~SwapSignerOk(pool, token_in_idx) \/ v1[token_mint_out] < amount_out
     THEN Interrupted(p, u, "TokenError", <<cpi_in, cpi_out>>, pool, v1, out)
     ELSE IF overflow_checks /\ ~InRange(r_in)
     THEN Interrupted(p, u, "Panic", <<cpi_in, cpi_out>>, pool,
                      [v1 EXCEPT ![token_mint_out] = @ - amount_out], out)
     ELSE Interrupted(p, u, "Ok", <<cpi_in, cpi_out>>,
                      [pool EXCEPT !.reserves = [reserves1 EXCEPT ![token_out_idx] = SatSub(@, amount_out)],
                                   !.last_update = clock],
                      [v1 EXCEPT ![token_mint_out] = @ - amount_out], out)

\* swap.rs 92-96: the output for the fee of the current weights
SwapQuote(p, u, token_mint_in, token_mint_out, amount_in, min_amount_out, token_in_idx, token_out_idx, fee, weights_ovf) ==
  SwapSettle(p, u, token_mint_in, token_mint_out, amount_in, min_amount_out,
             token_in_idx, token_out_idx, fee, weights_ovf,
             calculate_output_amount(amount_in, pools[p].reserves[token_in_idx],
                                     pools[p].reserves[token_out_idx], fee,
                                     pools[p].amplification, overflow_checks))

\* swap.rs 84-90: current weights and dynamic fee
SwapPrice(p, u, token_mint_in, token_mint_out, amount_in, min_amount_out, token_in_idx, token_out_idx, current_weights) ==
  IF overflow_checks /\ current_weights.ovf
  THEN Rejected(p, u, "Panic", [fee |-> 0, amount_out |-> 0, ovf |-> FALSE])
  ELSE SwapQuote(p, u, token_mint_in, token_mint_out, amount_in, min_amount_out,
                 token_in_idx, token_out_idx,
                 calculate_dynamic_fee(current_weights.val, pools[p].target_weights),
                 current_weights.ovf)

SwapRun(p, u, token_mint_in, token_mint_out, amount_in, min_amount_out) ==
  IF IndexOf(pools[p].token_mints, token_mint_in) = 0 \/ IndexOf(pools[p].token_mints, token_mint_out) = 0
  THEN Rejected(p, u, "InvalidTokenMint", [fee |-> 0, amount_out |-> 0, ovf |-> FALSE])
  ELSE SwapPrice(p, u, token_mint_in, token_mint_out, amount_in, min_amount_out,
                 IndexOf(pools[p].token_mints, token_mint_in),
                 IndexOf(pools[p].token_mints, token_mint_out),
                 calculate_weights(pools[p].reserves))

\* ------------------------------------------------------ custody loops
\* `for (i, (from, to, amount)) in token_accounts.iter().enumerate()` of the
\* deposit and create handlers: transfer user -> pool when amount > 0, then
\* update reserves[i] (assign is TRUE in create_pool: `=`; FALSE in deposit: `+=`)
RECURSIVE TransferInLoop(_, _, _, _, _, _, _)
TransferInLoop(p, u, mints, amounts, assign, i, acc) ==
  IF i > Len(mints) \/ acc.status # "Ok" THEN acc
  ELSE IF amounts[i] = 0 THEN TransferInLoop(p, u, mints, amounts, assign, i + 1, acc)
  ELSE LET cpi == Transfer(u, p, mints[i], amounts[i])
           bal == acc.vault[mints[i]] + amounts[i]
           r == IF assign THEN amounts[i] ELSE acc.reserves[i] + amounts[i]
       IN IF bal > U64_MAX
          THEN [acc EXCEPT !.cpis = Append(@, cpi), !.status = "TokenError"]
          ELSE TransferInLoop(p, u, mints, amounts, assign, i + 1,
                 [cpis |-> Append(acc.cpis, cpi),
                  reserves |-> [acc.reserves EXCEPT ![i] = Wrap(r)],
                  vault |-> [acc.vault EXCEPT ![mints[i]] = bal],
                  ovf |-> acc.ovf \/ ~InRange(r),
                  status |-> IF overflow_checks /\ ~InRange(r) THEN "Panic" ELSE "Ok"])

\* u64 `iter().sum()`: [val, ovf]
SumU64(s) == [val |-> Wrap(SeqSum(s)), ovf |-> ~InRange(SeqSum(s))]

\* ----------------------------------------------- instructions/create_pool.rs
\* create_pool.rs: the LP mint that ends both create handlers; pool0 is the
\* initialised Pool account, loop the transfers of the initial amounts,
\* initial_lp_amount [val, ovf] the LP to mint
CreateMint(p, u, pool0, loop, initial_lp_amount) ==
  LET pool1 == [pool0 EXCEPT !.reserves = loop.reserves]
      mint == MintTo(p, u, initial_lp_amount.val)
      out == [lp_amount |-> initial_lp_amount.val]
      Ret(r, cpis, supply, tokens) ==
        Outcome(r, cpis, pool1, NoPosition, loop.vault, supply, tokens, out)
  IN IF loop.status # "Ok" THEN Ret(loop.status, loop.cpis, lp_supply[p], lp_tokens[p][u])
     ELSE IF overflow_checks /\ initial_lp_amount.ovf
     THEN Ret("Panic", loop.cpis, lp_supply[p], lp_tokens[p][u])
     ELSE IF lp_supply[p] + initial_lp_amount.val > U64_MAX
     THEN Ret("TokenError", Append(loop.cpis, mint), lp_supply[p], lp_tokens[p][u])
     ELSE Ret("Ok", Append(loop.cpis, mint),
              lp_supply[p] + initial_lp_amount.val, lp_tokens[p][u] + initial_lp_amount.val)

NewPool(p, pool_type, n, target_weights, amplification, seed_pool) ==
  [exists |-> TRUE, pool_type |-> pool_type, token_mints |-> MintsOf(p),
   reserves |-> Zeros(n), target_weights |-> target_weights,
   amplification |-> amplification, total_fees |-> 0, last_update |-> clock,
   seed_pool |-> seed_pool]

NoTransfers(p, n) ==
  [cpis |-> <<>>, reserves |-> Zeros(n), vault |-> vault[p], ovf |-> FALSE, status |-> "Ok"]

create_seed_pool(p, u, amplification, target_weights, initial_amounts) ==
  IF Len(target_weights) # 3 \/ Len(initial_amounts) # 3
  THEN Rejected(p, u, "InvalidInputLength", [lp_amount |-> 0])
  ELSE IF overflow_checks /\ SumU64(target_weights).ovf
  THEN Rejected(p, u, "Panic", [lp_amount |-> 0])
  ELSE IF SumU64(target_weights).val # BPS
  THEN Rejected(p, u, "InvalidWeights", [lp_amount |-> 0])
  ELSE CreateMint(p, u, NewPool(p, "Seed", 3, target_weights, amplification, "None"),
                  TransferInLoop(p, u, MintsOf(p), initial_amounts, TRUE, 1, NoTransfers(p, 3)),
                  SumU64(initial_amounts))

\* create_growth_pool without its `require!` on the kind of seed_pool
create_growth_pool_any_reference(p, u, seed_pool, amplification, initial_usdc_star_amount, initial_partner_amount) ==
  CreateMint(p, u, NewPool(p, "Growth", 2, <<5000, 5000>>, amplification, seed_pool),
                  TransferInLoop(p, u, MintsOf(p),
                                 <<initial_usdc_star_amount, initial_partner_amount>>,
                                 TRUE, 1, NoTransfers(p, 2)),
                  [val |-> MulWrap(Min(initial_usdc_star_amount, initial_partner_amount), 2),
                   ovf |-> MulOvf(Min(initial_usdc_star_amount, initial_partner_amount), 2)])

create_growth_pool(p, u, seed_pool, amplification, initial_usdc_star_amount, initial_partner_amount) ==
  IF pools[seed_pool].pool_type # "Seed"
  THEN Rejected(p, u, "InvalidPoolType", [lp_amount |-> 0])
  ELSE CreateMint(p, u, NewPool(p, "Growth", 2, <<5000, 5000>>, amplification, seed_pool),
                  TransferInLoop(p, u, MintsOf(p),
                                 <<initial_usdc_star_amount, initial_partner_amount>>,
                                 TRUE, 1, NoTransfers(p, 2)),
                  [val |-> MulWrap(Min(initial_usdc_star_amount, initial_partner_amount), 2),
                   ovf |-> MulOvf(Min(initial_usdc_star_amount, initial_partner_amount), 2)])

\* --------------------------------------------------- instructions/deposit.rs
\* DepositInitialLp minting twice the sum, the scaling create_growth_pool uses
DepositInitialLpDoubled(checks, sum) ==
  IF checks /\ sum.ovf
  THEN [tag |-> "Panic", val |-> 0, ovf |-> TRUE, old_d |-> 0, new_d |-> 0]
  ELSE [tag |-> "Some", val |-> Wrap(sum.val * 2), ovf |-> sum.ovf, old_d |-> 0, new_d |-> 0]

\* deposit.rs 229-231: the first deposit mints the sum of the amounts
DepositInitialLp(checks, sum) ==
  IF checks /\ sum.ovf
  THEN [tag |-> "Panic", val |-> 0, ovf |-> TRUE, old_d |-> 0, new_d |-> 0]
  ELSE [tag |-> "Some", val |-> sum.val, ovf |-> sum.ovf, old_d |-> 0, new_d |-> 0]

\* DepositLpOfInvariants with lp_supply * new_d / old_d, the subtraction of
\* old_d left out
DepositLpOfNewInvariant(supply, checks, old_d, new_d) ==
  LET diff == new_d.val - old_d.val
      lp == (supply * new_d.val) \div old_d.val
      ovf == old_d.ovf \/ new_d.ovf \/ ~InRange(diff)
  IN IF old_d.tag # "Some"
     THEN [tag |-> old_d.tag, val |-> 0, ovf |-> old_d.ovf, old_d |-> 0, new_d |-> 0]
     ELSE IF new_d.tag # "Some"
     THEN [tag |-> new_d.tag, val |-> 0, ovf |-> ovf, old_d |-> old_d.val, new_d |-> 0]
     ELSE IF old_d.val = 0 \/ (checks /\ ovf)
     THEN [tag |-> "Panic", val |-> 0, ovf |-> TRUE, old_d |-> old_d.val, new_d |-> new_d.val]
     ELSE [tag |-> "Some", val |-> Wrap(lp), ovf |-> ovf \/ ~InRange(lp),
           old_d |-> old_d.val, new_d |-> new_d.val]

\* DepositLpOfInvariants minting nothing, in place of `.ok_or(MathOverflow)?`,
\* when an invariant is None
DepositLpOfInvariantsOrNothing(supply, checks, old_d, new_d) ==
  LET diff == new_d.val - old_d.val
      lp == (supply * Wrap(diff)) \div old_d.val
      ovf == old_d.ovf \/ new_d.ovf \/ ~InRange(diff)
  IN IF old_d.tag = "None" \/ new_d.tag = "None"
     THEN [tag |-> "Some", val |-> 0, ovf |-> FALSE, old_d |-> 0, new_d |-> 0]
     ELSE IF old_d.tag # "Some" \/ new_d.tag # "Some" \/ old_d.val = 0 \/ (checks /\ ovf)
     THEN [tag |-> "Panic", val |-> 0, ovf |-> TRUE, old_d |-> 0, new_d |-> 0]
     ELSE [tag |-> "Some", val |-> Wrap(lp), ovf |-> ovf \/ ~InRange(lp),
           old_d |-> old_d.val, new_d |-> new_d.val]

\* deposit.rs 234-242: `.ok_or(MathOverflow)?` on each invariant, then
\* (lp_supply as u128 * (new_d - old_d) as u128 / old_d as u128) as u64
DepositLpOfInvariants(supply, checks, old_d, new_d) ==
  LET diff == new_d.val - old_d.val
      lp == (supply * Wrap(diff)) \div old_d.val
      ovf == old_d.ovf \/ new_d.ovf \/ ~InRange(diff)
  IN IF old_d.tag # "Some"
     THEN [tag |-> old_d.tag, val |-> 0, ovf |-> old_d.ovf, old_d |-> 0, new_d |-> 0]
     ELSE IF new_d.tag # "Some"
     THEN [tag |-> new_d.tag, val |-> 0, ovf |-> ovf, old_d |-> old_d.val, new_d |-> 0]
     ELSE IF old_d.val = 0 \/ (checks /\ ovf)
     THEN [tag |-> "Panic", val |-> 0, ovf |-> TRUE, old_d |-> old_d.val, new_d |-> new_d.val]
     ELSE [tag |-> "Some", val |-> Wrap(lp), ovf |-> ovf \/ ~InRange(lp),
           old_d |-> old_d.val, new_d |-> new_d.val]

\* LP tokens to mint (deposit.rs 226-243): [tag, val, ovf, old_d, new_d]
DepositLpAmount(old_reserves, new_reserves, amounts, amplification, supply, checks) ==
  IF SumU64(old_reserves).val = 0
  THEN DepositInitialLp(checks, SumU64(amounts))
  ELSE DepositLpOfInvariants(supply, checks,
                             calculate_invariant(old_reserves, amplification, checks),
                             calculate_invariant(new_reserves, amplification, checks))

\* deposit.rs 245-309: slippage test, LP mint, position update; loop is the
\* state after the transfers, lp the result of DepositLpAmount
DepositMint(p, u, min_lp_amount, concentration, total_ovf, loop, lp) ==
  LET pos == positions[p][u]
      pool1 == [pools[p] EXCEPT !.reserves = loop.reserves]
      lp_amount == lp.val
      mint == MintTo(p, u, lp_amount)
      new_lp == pos.lp_amount + lp_amount
      pos1 == [initialized |-> TRUE,
               lp_amount |-> Wrap(new_lp),
               min_price |-> SatSub(concentration, 1000),
               max_price |-> SatAdd(concentration, 1000),
               is_active |-> TRUE]
      out == [lp_amount |-> lp_amount, old_d |-> lp.old_d, new_d |-> lp.new_d,
              ovf |-> lp.ovf \/ loop.ovf \/ total_ovf]
  IN IF lp.tag = "None" THEN Interrupted(p, u, "MathOverflow", loop.cpis, pool1, loop.vault, out)
     ELSE IF lp.tag = "Panic" THEN Interrupted(p, u, "Panic", loop.cpis, pool1, loop.vault, out)
     ELSE IF ~(lp_amount >= min_lp_amount)
     THEN Interrupted(p, u, "SlippageExceeded", loop.cpis, pool1, loop.vault, out)
     ELSE IF lp_supply[p] + lp_amount > U64_MAX
     THEN Interrupted(p, u, "TokenError", Append(loop.cpis, mint), pool1, loop.vault, out)
     ELSE IF overflow_checks /\ ~InRange(new_lp)
     THEN Outcome("Panic", Append(loop.cpis, mint), pool1, pos, loop.vault,
                  lp_supply[p] + lp_amount, lp_tokens[p][u] + lp_amount, out)
     ELSE Outcome("Ok", Append(loop.cpis, mint), pool1, pos1, loop.vault,
                  lp_supply[p] + lp_amount, lp_tokens[p][u] + lp_amount, out)

\* deposit.rs 226: after the transfer loop
DepositAfterTransfers(p, u, amounts, min_lp_amount, concentration, total_ovf, loop) ==
  IF loop.status # "Ok"
  THEN Interrupted(p, u, loop.status, loop.cpis, [pools[p] EXCEPT !.reserves = loop.reserves],
                   loop.vault, [lp_amount |-> 0, old_d |-> 0, new_d |-> 0, ovf |-> FALSE])
  ELSE DepositMint(p, u, min_lp_amount, concentration, total_ovf, loop,
                   DepositLpAmount(pools[p].reserves, loop.reserves, amounts,
                                   pools[p].amplification, lp_supply[p], overflow_checks))

DepositRun(p, u, amounts, mints, min_lp_amount, concentration) ==
  LET pool == pools[p]
      n == Len(pool.token_mints)
      none == [lp_amount |-> 0, old_d |-> 0, new_d |-> 0, ovf |-> FALSE]
  IN IF Len(amounts) # n THEN Rejected(p, u, "InvalidInputLength", none)
     ELSE IF pool.pool_type = "Seed" /\ Len(mints) < 3 THEN Rejected(p, u, "InvalidTokenMint", none)
     ELSE IF \E i \in 1..n : mints[i] # pool.token_mints[i]
     THEN Rejected(p, u, "InvalidTokenMint", none)
     ELSE IF overflow_checks /\ SumU64(pool.reserves).ovf THEN Rejected(p, u, "Panic", none)
     ELSE DepositAfterTransfers(p, u, amounts, min_lp_amount, concentration,
                                SumU64(pool.reserves).ovf,
                                TransferInLoop(p, u, pool.token_mints, amounts, FALSE, 1,
                                  [cpis |-> <<>>, reserves |-> pool.reserves, vault |-> vault[p],
                                   ovf |-> FALSE, status |-> "Ok"]))

\* -------------------------------------------------- instructions/withdraw.rs
\* WithdrawAmountsLoop dividing the reserve by 10000 before it multiplies
RECURSIVE WithdrawAmountsLoopDivideFirst(_, _, _, _, _)
WithdrawAmountsLoopDivideFirst(reserves, withdraw_ratio, min_amounts, i, acc) ==
  IF i > Len(reserves) \/ ~acc.ok THEN acc
  ELSE LET amount == Wrap((reserves[i] \div BPS) * withdraw_ratio)
       IN WithdrawAmountsLoopDivideFirst(reserves, withdraw_ratio, min_amounts, i + 1,
            [amounts |-> Append(acc.amounts, amount),
             ok |-> IF i <= Len(min_amounts) THEN amount >= min_amounts[i] ELSE TRUE])

\* WithdrawAmountsLoop with each amount rounded up
RECURSIVE WithdrawAmountsLoopRoundedUp(_, _, _, _, _)
WithdrawAmountsLoopRoundedUp(reserves, withdraw_ratio, min_amounts, i, acc) ==
  IF i > Len(reserves) \/ ~acc.ok THEN acc
  ELSE LET amount == Wrap((reserves[i] * withdraw_ratio + BPS - 1) \div BPS)
       IN WithdrawAmountsLoopRoundedUp(reserves, withdraw_ratio, min_amounts, i + 1,
            [amounts |-> Append(acc.amounts, amount),
             ok |-> IF i <= Len(min_amounts) THEN amount >= min_amounts[i] ELSE TRUE])

\* the loop of calculate_withdrawal_amounts: [amounts, ok]
RECURSIVE WithdrawAmountsLoop(_, _, _, _, _)
WithdrawAmountsLoop(reserves, withdraw_ratio, min_amounts, i, acc) ==
  IF i > Len(reserves) \/ ~acc.ok THEN acc
  ELSE LET amount == Wrap((reserves[i] * withdraw_ratio) \div BPS)
       IN WithdrawAmountsLoop(reserves, withdraw_ratio, min_amounts, i + 1,
            [amounts |-> Append(acc.amounts, amount),
             ok |-> IF i <= Len(min_amounts) THEN amount >= min_amounts[i] ELSE TRUE])

WithdrawalAmountsOf(withdraw_ratio, loop) ==
  IF ~loop.ok THEN [tag |-> "SlippageExceeded", val |-> loop.amounts, ratio |-> withdraw_ratio]
  ELSE [tag |-> "Ok", val |-> loop.amounts, ratio |-> withdraw_ratio]

calculate_withdrawal_amounts(reserves, lp_amount, total_lp_supply, min_amounts) ==
  IF total_lp_supply = 0 THEN [tag |-> "Panic", val |-> <<>>, ratio |-> 0]
  ELSE WithdrawalAmountsOf((lp_amount * BPS) \div total_lp_supply,
         WithdrawAmountsLoop(reserves, (lp_amount * BPS) \div total_lp_supply, min_amounts, 1,
                             [amounts |-> <<>>, ok |-> TRUE]))

\* transfer pool -> user of withdraw_amounts[i] out of the pool's account for
\* the mint the caller passed in slot i, then updated_reserves[i] -= amount
RECURSIVE TransferOutLoop(_, _, _, _, _, _)
TransferOutLoop(p, u, mints, amounts, i, acc) ==
  IF i > Len(amounts) \/ acc.status # "Ok" THEN acc
  ELSE IF amounts[i] = 0 THEN TransferOutLoop(p, u, mints, amounts, i + 1, acc)
  ELSE LET cpi == Transfer(p, u, mints[i], amounts[i])
       IN IF acc.vault[mints[i]] < amounts[i]
          THEN [acc EXCEPT !.cpis = Append(@, cpi), !.status = "TokenError"]
          ELSE TransferOutLoop(p, u, mints, amounts, i + 1,
                 [cpis |-> Append(acc.cpis, cpi),
                  reserves |-> [acc.reserves EXCEPT ![i] = SatSub(@, amounts[i])],
                  vault |-> [acc.vault EXCEPT ![mints[i]] = @ - amounts[i]],
                  status |-> "Ok"])

\* WithdrawSettle storing two reserves whatever the kind of the pool
WithdrawSettleTwoReserves(p, u, lp_amount, out, loop) ==
  LET pos == positions[p][u]
      lp1 == SatSub(pos.lp_amount, lp_amount)
  IN IF loop.status # "Ok"
     THEN Outcome(loop.status, loop.cpis, pools[p], pos, loop.vault,
                  lp_supply[p] - lp_amount, lp_tokens[p][u] - lp_amount, out)
     ELSE Outcome("Ok", loop.cpis,
                  [pools[p] EXCEPT !.reserves = SubSeq(loop.reserves, 1, 2), !.last_update = clock],
                  [pos EXCEPT !.lp_amount = lp1, !.is_active = IF lp1 = 0 THEN FALSE ELSE @],
                  loop.vault, lp_supply[p] - lp_amount, lp_tokens[p][u] - lp_amount, out)

\* withdraw.rs 244-260: reserves, position and timestamps after the transfers
WithdrawSettle(p, u, lp_amount, out, loop) ==
  LET pos == positions[p][u]
      lp1 == SatSub(pos.lp_amount, lp_amount)
  IN IF loop.status # "Ok"
     THEN Outcome(loop.status, loop.cpis, pools[p], pos, loop.vault,
                  lp_supply[p] - lp_amount, lp_tokens[p][u] - lp_amount, out)
     ELSE Outcome("Ok", loop.cpis,
                  [pools[p] EXCEPT !.reserves = loop.reserves, !.last_update = clock],
                  [pos EXCEPT !.lp_amount = lp1, !.is_active = IF lp1 = 0 THEN FALSE ELSE @],
                  loop.vault, lp_supply[p] - lp_amount, lp_tokens[p][u] - lp_amount, out)

\* withdraw.rs 129-242: the burn and the transfers of the amounts w
WithdrawPay(p, u, lp_amount, mints, w) ==
  LET out == [amounts |-> w.val, ratio |-> w.ratio]
  IN IF w.tag # "Ok" THEN Rejected(p, u, w.tag, out)
     ELSE IF lp_tokens[p][u] < lp_amount
     THEN Interrupted(p, u, "TokenError", <<Burn(p, u, lp_amount)>>, pools[p], vault[p], out)
     ELSE IF pools[p].pool_type = "Seed" /\ Len(mints) < 3
     THEN Outcome("Panic", <<Burn(p, u, lp_amount)>>, pools[p], positions[p][u], vault[p],
                  lp_supply[p] - lp_amount, lp_tokens[p][u] - lp_amount, out)
     ELSE WithdrawSettle(p, u, lp_amount, out,
            TransferOutLoop(p, u, mints, w.val, 1,
              [cpis |-> <<Burn(p, u, lp_amount)>>, reserves |-> pools[p].reserves,
               vault |-> vault[p], status |-> "Ok"]))

\* WithdrawRun without the `user_position.lp_amount >= lp_amount` requirement
WithdrawRunNoBalanceTest(p, u, lp_amount, min_amounts, mints) ==
  LET none == [amounts |-> <<>>, ratio |-> 0]
  IN IF ~positions[p][u].initialized THEN Rejected(p, u, "AccountNotInitialized", none)
     ELSE IF ~positions[p][u].is_active THEN Rejected(p, u, "PositionNotActive", none)
     ELSE IF Len(min_amounts) # Len(pools[p].token_mints)
     THEN Rejected(p, u, "InvalidInputLength", none)
     ELSE WithdrawPay(p, u, lp_amount, mints,
            calculate_withdrawal_amounts(pools[p].reserves, lp_amount, lp_supply[p], min_amounts))

WithdrawRun(p, u, lp_amount, min_amounts, mints) ==
  LET none == [amounts |-> <<>>, ratio |-> 0]
  IN IF ~positions[p][u].initialized THEN Rejected(p, u, "AccountNotInitialized", none)
     ELSE IF ~positions[p][u].is_active THEN Rejected(p, u, "PositionNotActive", none)
     ELSE IF Len(min_amounts) # Len(pools[p].token_mints)
     THEN Rejected(p, u, "InvalidInputLength", none)
     ELSE IF ~(positions[p][u].lp_amount >= lp_amount)
     THEN Rejected(p, u, "InsufficientLiquidity", none)
     ELSE WithdrawPay(p, u, lp_amount, mints,
            calculate_withdrawal_amounts(pools[p].reserves, lp_amount, lp_supply[p], min_amounts))

\* ------------------------------------------------------------ input domains
MaxAmplification == 1
Amplifications == {0, MaxAmplification}
AmountSeqs(n) == [1..n -> 0..MaxAmount]
Arity(p) == Len(MintsOf(p))
TooMuch == 4 * MaxReserve
Swapped(m) == [i \in 1..Len(m) |-> IF i = 1 THEN m[2] ELSE IF i = 2 THEN m[1] ELSE m[i]]

Concentrations == {5}

\* initial amounts of a new pool: none, one unit of each asset, the first
\* asset alone, every asset but the last
CreateAmounts(n) ==
  {Zeros(n), Ones(n), [i \in 1..n |-> IF i = 1 THEN MaxAmount ELSE 0],
   [i \in 1..n |-> IF i = n THEN 0 ELSE 1]}

CreateSeedCalls ==
  [amplification : Amplifications, target_weights : {<<3334, 3333, 3333>>},
   initial_amounts : CreateAmounts(3)]
  \cup {[amplification |-> 1, target_weights |-> <<5000, 3000, 1000>>, initial_amounts |-> Ones(3)],
        [amplification |-> 1, target_weights |-> <<5000, 5000>>, initial_amounts |-> Ones(3)],
        [amplification |-> 1, target_weights |-> <<3334, 3333, 3333>>, initial_amounts |-> Ones(2)]}

\* well-formed calls with every amount vector, and malformed ones: a wrong
\* arity, mint accounts in the wrong order, a missing third mint, a minimum
\* that cannot be met
DepositCalls(p) ==
  [amounts : AmountSeqs(Arity(p)), mints : {MintsOf(p)}, min_lp_amount : {0},
   concentration : Concentrations]
  \cup {[amounts |-> Ones(5 - Arity(p)), mints |-> MintsOf(p), min_lp_amount |-> 0, concentration |-> 5],
        [amounts |-> Ones(Arity(p)), mints |-> Swapped(MintsOf(p)), min_lp_amount |-> 0, concentration |-> 5],
        [amounts |-> Ones(Arity(p)), mints |-> SubSeq(MintsOf(p), 1, 2), min_lp_amount |-> 0, concentration |-> 5],
        [amounts |-> Ones(Arity(p)), mints |-> MintsOf(p), min_lp_amount |-> TooMuch, concentration |-> 5]}

WithdrawCalls(p) ==
  [lp_amount : 0..(MaxAmount + 1), min_amounts : {Zeros(Arity(p))},
   mints : {MintsOf(p), Swapped(MintsOf(p))}]
  \cup {[lp_amount |-> 1, min_amounts |-> Zeros(5 - Arity(p)), mints |-> MintsOf(p)],
        [lp_amount |-> TooMuch, min_amounts |-> Zeros(5 - Arity(p)), mints |-> MintsOf(p)],
        [lp_amount |-> 1, min_amounts |-> Ones(Arity(p)), mints |-> MintsOf(p)],
        [lp_amount |-> 1, min_amounts |-> Zeros(Arity(p)), mints |-> SubSeq(MintsOf(p), 1, 2)]}

SwapCalls(p) ==
  LET own == {MintsOf(p)[i] : i \in 1..Arity(p)}
  IN [token_mint_in : own, token_mint_out : own, amount_in : 0..MaxAmount, min_amount_out : {0}]
     \cup {[token_mint_in |-> MintsOf(p)[1], token_mint_out |-> CHOOSE m \in Mints : m \notin own,
            amount_in |-> 1, min_amount_out |-> 0],
           [token_mint_in |-> CHOOSE m \in Mints : m \notin own, token_mint_out |-> MintsOf(p)[1],
            amount_in |-> 1, min_amount_out |-> 0],
           [token_mint_in |-> MintsOf(p)[1], token_mint_out |-> MintsOf(p)[2],
            amount_in |-> 1, min_amount_out |-> TooMuch]}

\* ------------------------------------------------------------------ actions
\* Instructions run one at a time (single-threaded, transactional).  The
\* runtime commits the accounts and the custody effects of an instruction only
\* when it returns Ok; any error or panic discards them.  `last` holds the
\* instruction until its result has been delivered (Return).
Idle == last.op = "none"

Commit(op, p, u, args, o) ==
  /\ last' = [op |-> op, pool |-> p, user |-> u, result |-> o.result, cpis |-> o.cpis,
              touched |-> (o.pool # pools[p] \/ o.position # positions[p][u]),
              args |-> args,
              pre |-> [reserves |-> pools[p].reserves, lp_supply |-> lp_supply[p],
                       position |-> positions[p][u], vault |-> vault[p]],
              out |-> o.out]
  /\ IF o.result = "Ok"
     THEN /\ pools' = [pools EXCEPT ![p] = o.pool]
          /\ positions' = [positions EXCEPT ![p][u] = o.position]
          /\ vault' = [vault EXCEPT ![p] = o.vault]
          /\ lp_supply' = [lp_supply EXCEPT ![p] = o.lp_supply]
          /\ lp_tokens' = [lp_tokens EXCEPT ![p][u] = o.lp_tokens]
     ELSE UNCHANGED <<pools, positions, vault, lp_supply, lp_tokens>>
  /\ UNCHANGED <<overflow_checks, clock, focus, math>>

\* model bound: no reserve is driven above MaxReserve, nor the LP supply above
\* MaxLpSupply
WithinBounds(o) ==
  o.result = "Ok" => /\ \A i \in 1..Len(o.pool.reserves) : o.pool.reserves[i] <= MaxReserve
                     /\ o.lp_supply <= MaxLpSupply

\* an instruction of the model: run within the bounds, then committed
Apply(op, p, u, args, o) == WithinBounds(o) /\ Commit(op, p, u, args, o)

\* model scope: alice creates the pools, bob provides liquidity, both trade
Depositors == {"bob"}
Traders == {"alice"}

\* model scope: a run exercises the pool `focus` ("seed" or "g1"); the Seed
\* pool a Growth pool refers to is created by alice with amplification 1 and
\* one unit of each asset; "g2" is only ever requested with the Growth pool
\* "g1" as its seed_pool
Scoped(p, c) ==
  \/ p = focus
  \/ /\ p = "seed"
     /\ c.amplification = 1
     /\ c.initial_amounts = Ones(Arity(p))
     /\ c.target_weights \in {<<3334, 3333, 3333>>, <<5000, 5000>>}
  \/ /\ p = "g2"
     /\ c.seed_pool = "g1"
     /\ c.amplification = 1
     /\ c.initial_amounts = Ones(Arity(p))

CreateSeedPool ==
  \E c \in CreateSeedCalls :
    /\ Idle
    /\ ~pools["seed"].exists
    /\ Scoped("seed", c)
    /\ Apply("create_seed_pool", "seed", "alice", c,
             create_seed_pool("seed", "alice", c.amplification, c.target_weights, c.initial_amounts))

CreateGrowthPool ==
  \E p \in PoolIds \ {"seed"}, seed_pool \in PoolIds,
     amplification \in Amplifications, a \in CreateAmounts(2) :
    /\ Idle
    /\ ~pools[p].exists
    /\ pools[seed_pool].exists
    /\ Scoped(p, [amplification |-> amplification, seed_pool |-> seed_pool,
                   initial_amounts |-> a, target_weights |-> <<5000, 5000>>])
    /\ Apply("create_growth_pool", p, "alice",
             [amplification |-> amplification, seed_pool |-> seed_pool,
              initial_amounts |-> a, target_weights |-> <<5000, 5000>>],
             create_growth_pool(p, "alice", seed_pool, amplification, a[1], a[2]))

Deposit ==
  \E u \in Depositors :
   \E c \in DepositCalls(focus) :
    /\ Idle
    /\ pools[focus].exists
    /\ Apply("deposit", focus, u, c,
             DepositRun(focus, u, c.amounts, c.mints, c.min_lp_amount, c.concentration))

Withdraw ==
  \E u \in Users :
   \E c \in WithdrawCalls(focus) :
    /\ u \in Depositors \/ c = [lp_amount |-> 1, min_amounts |-> Zeros(Arity(focus)), mints |-> MintsOf(focus)]
    /\ Idle
    /\ pools[focus].exists
    /\ Commit("withdraw", focus, u, c, WithdrawRun(focus, u, c.lp_amount, c.min_amounts, c.mints))

Swap ==
  \E u \in Traders :
   \E c \in SwapCalls(focus) :
    /\ Idle
    /\ pools[focus].exists
    /\ Apply("swap", focus, u, c,
             SwapRun(focus, u, c.token_mint_in, c.token_mint_out, c.amount_in, c.min_amount_out))

\* the result of the instruction is delivered to the caller
Return ==
  /\ ~Idle
  /\ last' = NoCall
  /\ UNCHANGED <<overflow_checks, clock, pools, positions, vault, lp_supply, lp_tokens, focus, math>>

\* the wall clock advances between instructions
Tick ==
  /\ Idle
  /\ clock < MaxClock
  /\ clock' = clock + 1
  /\ UNCHANGED <<overflow_checks, pools, positions, vault, lp_supply, lp_tokens, last, focus, math>>

Init ==
  /\ overflow_checks \in BOOLEAN
  /\ focus \in {"seed", "g1"}
  /\ clock = 0
  /\ pools = [p \in PoolIds |-> NoPool]
  /\ positions = [p \in PoolIds |-> [u \in Users |-> NoPosition]]
  /\ vault = [p \in PoolIds |-> [m \in Mints |-> 0]]
  /\ lp_supply = [p \in PoolIds |-> 0]
  /\ lp_tokens = [p \in PoolIds |-> [u \in Users |-> 0]]
  /\ last = NoCall
  /\ math = NoMath

Next == CreateSeedPool \/ CreateGrowthPool \/ Deposit \/ Withdraw \/ Swap \/ Return \/ Tick

Spec == Init /\ [][Next]_vars

\* ------------------------------------------- direct use of state/math.rs
\* The functions of state/math.rs are public: each action below is one call
\* with arguments from the bounded sets, in the build the run was started with.
\* The functions keep no state, so a run evaluates one call.
MaxMathValue == 3
BigValue == 2 ^ (WordBits \div 3 + 1)
HugeValue == 2 ^ (WordBits \div 2)
MathValues == (0..MaxMathValue) \cup {BigValue}
MathAmplifications == 0..(MaxAmplification + 1)
MathVectors ==
  UNION {[1..n -> MathValues \cup {HugeValue}] : n \in 0..3}

EvalInvariant ==
  \E amounts \in MathVectors, amplification \in MathAmplifications :
    /\ math = NoMath
    /\ math' = [fn |-> "calculate_invariant",
                args |-> [amounts |-> amounts, amplification |-> amplification],
                out |-> InvariantRun(amounts, amplification, overflow_checks)]
    /\ UNCHANGED <<overflow_checks, clock, pools, positions, vault, lp_supply, lp_tokens, last, focus>>

EvalOutputAmount ==
  \E x_amount \in (0..MaxAmount) \cup {BigValue}, x_reserve \in MathValues, y_reserve \in MathValues,
     fee \in BASE_FEE..MAX_FEE, amplification \in MathAmplifications :
    /\ math = NoMath
    /\ math' = [fn |-> "calculate_output_amount",
                args |-> [x_amount |-> x_amount, x_reserve |-> x_reserve, y_reserve |-> y_reserve,
                          fee |-> fee, amplification |-> amplification],
                out |-> calculate_output_amount(x_amount, x_reserve, y_reserve, fee,
                                                amplification, overflow_checks)]
    /\ UNCHANGED <<overflow_checks, clock, pools, positions, vault, lp_supply, lp_tokens, last, focus>>

InitMath == Init /\ focus = "seed"

NextMath == EvalInvariant \/ EvalOutputAmount

SpecMath == InitMath /\ [][NextMath]_vars

\* ------------------------------------------------ weights and dynamic fee
\* calculate_weights and calculate_dynamic_fee called directly. Reserves run
\* over the small values, one value whose product with 10000 still fits the
\* word and two whose product does not; weights run over basis-point values
\* on both sides of the steps of the fee.
MidValue == 2 ^ (WordBits \div 3)
WeightReserves == MathValues \cup {MidValue, HugeValue}
WeightReserveVectors == UNION {[1..n -> WeightReserves] : n \in 0..3}
WeightGrid == {0, 3333, 4500, 5000, 5499, 5500, BPS}
WeightVectors == UNION {[1..n -> WeightGrid] : n \in 2..3}
TargetVectors == {<<5000, 5000>>, <<3334, 3333, 3333>>, <<BPS, 0>>}
FeeInputs == WeightVectors \X TargetVectors

EvalWeights ==
  \E reserves \in WeightReserveVectors :
    /\ math = NoMath
    /\ math' = [fn |-> "calculate_weights",
                args |-> [reserves |-> reserves],
                out |-> LET w == calculate_weights(reserves)
                        IN [res |-> IF overflow_checks /\ w.ovf THEN Panic ELSE Some(w.val, w.ovf),
                            divided |-> w.divided]]
    /\ UNCHANGED <<overflow_checks, clock, pools, positions, vault, lp_supply, lp_tokens, last, focus>>

EvalDynamicFee ==
  \E input \in FeeInputs :
    /\ math = NoMath
    /\ math' = [fn |-> "calculate_dynamic_fee",
                args |-> [current_weights |-> input[1], target_weights |-> input[2]],
                out |-> calculate_dynamic_fee(input[1], input[2])]
    /\ UNCHANGED <<overflow_checks, clock, pools, positions, vault, lp_supply, lp_tokens, last, focus>>

NextFee == EvalWeights \/ EvalDynamicFee

SpecFee == InitMath /\ [][NextFee]_vars

\* ------------------------------------------------- a swap and the swap back
\* Pools holding close to half the word of one asset, next to the small ones:
\* create_seed_pool accepts any initial amounts the creator owns.
MaxWhaleExcess == 6
WhaleSeedCalls ==
  [amplification : {1}, target_weights : {<<3334, 3333, 3333>>},
   initial_amounts : {<<a, Modulus \div 2 + k, c>> :
                        a \in 1..MaxReserve, k \in 0..MaxWhaleExcess, c \in 1..MaxReserve}]

CreateAnySeedPool ==
  \E c \in CreateSeedCalls \cup WhaleSeedCalls :
    /\ Idle
    /\ ~pools["seed"].exists
    /\ Commit("create_seed_pool", "seed", "alice", c,
              create_seed_pool("seed", "alice", c.amplification, c.target_weights, c.initial_amounts))

\* the first instruction on the new pool is a swap by the trader
SwapThere ==
  \E u \in Traders :
   \E c \in SwapCalls("seed") :
    /\ last.op = "create_seed_pool" /\ last.result = "Ok"
    /\ Commit("swap", "seed", u, c,
              SwapRun("seed", u, c.token_mint_in, c.token_mint_out, c.amount_in, c.min_amount_out))

\* the trader swaps what the first swap paid out back into the asset it gave
SwapBack ==
  /\ last.op = "swap" /\ last.result = "Ok"
  /\ last.args.token_mint_in # last.args.token_mint_out
  /\ Commit("swap_back", "seed", last.user,
            [token_mint_in |-> last.args.token_mint_out, token_mint_out |-> last.args.token_mint_in,
             amount_in |-> last.out.amount_out, min_amount_out |-> 0,
             first |-> [amount_in |-> last.args.amount_in, fee |-> last.out.fee,
                        reserves |-> last.pre.reserves]],
            SwapRun("seed", last.user, last.args.token_mint_out, last.args.token_mint_in,
                    last.out.amount_out, 0))

InitRoundTrip == Init /\ focus = "seed"

NextRoundTrip == CreateAnySeedPool \/ SwapThere \/ SwapBack

SpecRoundTrip == InitRoundTrip /\ [][NextRoundTrip]_vars

\* -------------------------------------------- a deposit and its withdrawal
\* The instructions of Spec, and a depositor who answers a successful deposit
\* with the withdrawal of exactly the LP amount it minted, before any other
\* instruction runs on the pool.
WithdrawBack ==
  \E mints \in {MintsOf(last.pool), Swapped(MintsOf(last.pool))} :
    /\ last.op = "deposit" /\ last.result = "Ok"
    /\ Commit("withdraw_back", last.pool, last.user,
              [lp_amount |-> last.out.lp_amount, min_amounts |-> Zeros(Arity(last.pool)),
               mints |-> mints,
               first |-> [amounts |-> last.args.amounts, reserves |-> last.pre.reserves,
                          lp_supply |-> last.pre.lp_supply]],
              WithdrawRun(last.pool, last.user, last.out.lp_amount,
                          Zeros(Arity(last.pool)), mints))

NextDepositWithdraw == Next \/ WithdrawBack

SpecDepositWithdraw == Init /\ [][NextDepositWithdraw]_vars

\* C2: a successful swap of x > 0 of asset A into B on a pool with positive
\* reserves, followed by a successful swap of the received output back into A,
\* returns strictly less than x when the fee is positive, and at most x otherwise.
C2_RoundTripCreatesNoValue ==
  (/\ last.op = "swap_back" /\ last.result = "Ok"
   /\ last.args.first.amount_in > 0
   /\ \A i \in 1..Len(last.args.first.reserves) : last.args.first.reserves[i] > 0)
  => IF last.args.first.fee > 0 /\ last.out.fee > 0
     THEN last.out.amount_out < last.args.first.amount_in
     ELSE last.out.amount_out <= last.args.first.amount_in

\* ------------------------------------------------------------------ claims
AllPositive(reserves) == \A i \in 1..Len(reserves) : reserves[i] > 0

\* C1: a successful Swap on a pool whose reserves are all positive pays out
\* strictly less than the output reserve (the amount calculate_output_amount
\* returned) and does not leave the output reserve at 0.  Stated for the
\* ordinary trade: two different assets and a positive amount_in.
C1_SwapOutputBelowReserve ==
  (/\ last.op = "swap" /\ last.result = "Ok" /\ AllPositive(last.pre.reserves)
   /\ last.args.token_mint_in # last.args.token_mint_out /\ last.args.amount_in > 0)
  => LET token_out_idx == IndexOf(pools[last.pool].token_mints, last.args.token_mint_out)
     IN /\ last.out.amount_out < last.pre.reserves[token_out_idx]
        /\ pools[last.pool].reserves[token_out_idx] > 0

\* C3: when an intermediate value of calculate_invariant or of
\* calculate_output_amount leaves the machine range, the function reports the
\* failure (None, which the handlers turn into MathOverflow / InvalidSwap): it
\* neither aborts nor returns a value computed from a wrapped one.
C3_OverflowIsReportedAsError ==
  /\ math.fn = "calculate_invariant" => (math.out.res.ovf => math.out.res.tag = "None")
  /\ math.fn = "calculate_output_amount" => (math.out.ovf => math.out.tag = "None")

\* C4: for n in {2, 3} copies of r > 0 and amplification >= 1, when no
\* intermediate value overflows, calculate_invariant returns exactly n * r.
C4_EqualReservesInvariant ==
  (/\ math.fn = "calculate_invariant"
   /\ Len(math.args.amounts) \in {2, 3}
   /\ \A i \in 1..Len(math.args.amounts) :
        math.args.amounts[i] = math.args.amounts[1] /\ math.args.amounts[i] > 0
   /\ math.args.amplification >= 1
   /\ ~math.out.res.ovf)
  => /\ math.out.res.tag = "Some"
     /\ math.out.res.val = Len(math.args.amounts) * math.args.amounts[1]

C4_Witness ==
  /\ math.fn = "calculate_invariant"
  /\ math.args.amounts = <<3, 3, 3>>
  /\ math.args.amplification = 2
  /\ math.out.res = Some(9, FALSE)

\* C5: calculate_invariant returns no value for the empty list and for every
\* list that contains a zero, and has performed no division by then.
C5_InvalidReservesFailBeforeDivision ==
  (/\ math.fn = "calculate_invariant"
   /\ \/ math.args.amounts = <<>>
      \/ \E i \in 1..Len(math.args.amounts) : math.args.amounts[i] = 0)
  => /\ math.out.res.tag # "Some"
     /\ ~math.out.divided

C5_Witness ==
  /\ math.fn = "calculate_invariant"
  /\ math.args.amounts = <<3, 0, 0>>
  /\ math.out.res.tag = "None"
  /\ ~math.out.divided

OwnErrors ==
  {"InvalidInputLength", "InvalidTokenMint", "MathOverflow", "InvalidSwap",
   "SlippageExceeded", "InsufficientLiquidity"}

\* C6: when Deposit, Withdraw or Swap returns one of its own errors, it has
\* requested no transfer, mint or burn and has changed no field of the pool
\* or of the user position.
C6_OwnErrorsBeforeEffects ==
  (last.op \in {"deposit", "withdraw", "swap"} /\ last.result \in OwnErrors)
  => last.cpis = <<>> /\ ~last.touched

NothingChanged ==
  /\ last.cpis = <<>>
  /\ ~last.touched
  /\ pools[last.pool].reserves = last.pre.reserves
  /\ lp_supply[last.pool] = last.pre.lp_supply
  /\ positions[last.pool][last.user] = last.pre.position

\* C7 as claimed: a Withdraw of more LP than the caller's (existing) position
\* holds fails with InsufficientLiquidity and changes nothing.
C7_ExcessWithdrawInsufficientLiquidity ==
  (/\ last.op = "withdraw" /\ last.pre.position.initialized
   /\ last.args.lp_amount > last.pre.position.lp_amount)
  => last.result = "InsufficientLiquidity" /\ NothingChanged

\* C7 as amended: a Withdraw of more LP than the caller's position holds fails
\* and changes nothing; the error is that of the first failing check: the
\* account constraints (AccountNotInitialized, PositionNotActive), then
\* InvalidInputLength, then InsufficientLiquidity.
C7_ExcessWithdrawFails ==
  (last.op = "withdraw" /\ last.args.lp_amount > last.pre.position.lp_amount)
  => /\ last.result =
          IF ~last.pre.position.initialized THEN "AccountNotInitialized"
          ELSE IF ~last.pre.position.is_active THEN "PositionNotActive"
          ELSE IF Len(last.args.min_amounts) # Len(pools[last.pool].token_mints)
               THEN "InvalidInputLength"
          ELSE "InsufficientLiquidity"
     /\ NothingChanged

C7_Witness ==
  /\ last.op = "withdraw"
  /\ last.pre.position.is_active /\ last.pre.position.lp_amount > 0
  /\ last.args.lp_amount > last.pre.position.lp_amount
  /\ last.result = "InsufficientLiquidity"

\* C8: for every pool and every index i, reserves[i] equals the balance of
\* the pool's custody account for token_mints[i].
C8_ReservesMatchCustody ==
  \A p \in PoolIds :
    pools[p].exists =>
      \A i \in 1..Len(pools[p].reserves) :
        pools[p].reserves[i] = vault[p][pools[p].token_mints[i]]

\* C9: after a successful Deposit or Withdraw the caller's position has
\* is_active exactly when lp_amount > 0.
C9_ActiveIffHoldsLp ==
  (last.op \in {"deposit", "withdraw"} /\ last.result = "Ok")
  => (positions[last.pool][last.user].is_active
        <=> positions[last.pool][last.user].lp_amount > 0)

\* C10: a successful Deposit into a pool whose reserves before the transfers
\* do not sum to 0 requests the mint of floor(lp_supply * (D_new - D_old) / D_old)
\* LP, D_old and D_new being calculate_invariant of the reserves before and
\* after the deposit, and adds the same quantity to the position's lp_amount.
C10_DepositMintsInvariantGrowth ==
  (last.op = "deposit" /\ last.result = "Ok" /\ SeqSum(last.pre.reserves) # 0)
  => LET amplification == pools[last.pool].amplification
         D_old == calculate_invariant(last.pre.reserves, amplification, overflow_checks).val
         D_new == calculate_invariant(pools[last.pool].reserves, amplification, overflow_checks).val
         minted == (last.pre.lp_supply * (D_new - D_old)) \div D_old
     IN /\ last.cpis[Len(last.cpis)] = MintTo(last.pool, last.user, minted)
        /\ lp_supply[last.pool] = last.pre.lp_supply + minted
        /\ positions[last.pool][last.user].lp_amount = last.pre.position.lp_amount + minted

C10_Witness ==
  /\ last.op = "deposit" /\ last.result = "Ok"
  /\ last.pre.reserves = <<1, 1, 1>> /\ last.pre.lp_supply = 3
  /\ last.args.amounts = <<1, 0, 1>>
  /\ last.pre.position.lp_amount > 0
  /\ lp_supply[last.pool] = 5

\* C11: a successful Deposit into a pool whose reserves are all zero requests
\* the mint of exactly the sum of the deposited amounts and adds it to the LP
\* supply and to the position, whatever the supply and the amplification.
C11_BootstrapMintsSum ==
  (/\ last.op = "deposit" /\ last.result = "Ok"
   /\ \A i \in 1..Len(last.pre.reserves) : last.pre.reserves[i] = 0)
  => /\ last.cpis[Len(last.cpis)] = MintTo(last.pool, last.user, SeqSum(last.args.amounts))
     /\ lp_supply[last.pool] = last.pre.lp_supply + SeqSum(last.args.amounts)
     /\ positions[last.pool][last.user].lp_amount
          = last.pre.position.lp_amount + SeqSum(last.args.amounts)

C11_Witness ==
  /\ last.op = "deposit" /\ last.result = "Ok"
  /\ last.pre.reserves = <<0, 0, 0>>
  /\ last.args.amounts = <<1, 0, 1>>
  /\ pools[last.pool].amplification = 0
  /\ lp_supply[last.pool] = last.pre.lp_supply + 2

\* the amount calculate_withdrawal_amounts is to compute for index i of the
\* withdraw reported in `last`
ProRata(i) ==
  (last.pre.reserves[i] * ((last.args.lp_amount * BPS) \div last.pre.lp_supply)) \div BPS

\* C12: a successful Withdraw of lp_amount pays, for every asset i, exactly
\* floor(reserve_i * floor(lp_amount * 10000 / lp_supply) / 10000) out of the
\* pool's custody of asset i, decreases reserve_i by that amount, burns
\* lp_amount LP and decreases the position's lp_amount by lp_amount; a Withdraw
\* that passes the earlier checks with such an amount below min_amounts[i]
\* fails with SlippageExceeded.
C12_WithdrawPaysProRata ==
  /\ (last.op = "withdraw" /\ last.result = "Ok")
     => /\ \A i \in 1..Len(last.pre.reserves) :
             /\ pools[last.pool].reserves[i] = last.pre.reserves[i] - ProRata(i)
             /\ vault[last.pool][pools[last.pool].token_mints[i]]
                  = last.pre.vault[pools[last.pool].token_mints[i]] - ProRata(i)
        /\ last.cpis[1] = Burn(last.pool, last.user, last.args.lp_amount)
        /\ lp_supply[last.pool] = last.pre.lp_supply - last.args.lp_amount
        /\ positions[last.pool][last.user].lp_amount
             = last.pre.position.lp_amount - last.args.lp_amount
  /\ (/\ last.op = "withdraw"
      /\ last.pre.position.is_active
      /\ Len(last.args.min_amounts) = Len(last.pre.reserves)
      /\ last.args.lp_amount <= last.pre.position.lp_amount
      /\ last.pre.lp_supply > 0
      /\ \E i \in 1..Len(last.pre.reserves) : ProRata(i) < last.args.min_amounts[i])
     => last.result = "SlippageExceeded"

\* C13: a Withdraw of the whole LP supply (lp_amount = lp_supply > 0) computes
\* for every asset the whole reserve (the basis-point truncation loses nothing
\* at ratio 10000), and when it succeeds every reserve is 0 afterwards.
C13_FullWithdrawalEmptiesReserves ==
  (/\ last.op = "withdraw" /\ last.result = "Ok"
   /\ last.pre.lp_supply > 0 /\ last.args.lp_amount = last.pre.lp_supply)
  => /\ last.out.ratio = BPS
     /\ last.out.amounts = last.pre.reserves
     /\ \A i \in 1..Len(last.pre.reserves) : pools[last.pool].reserves[i] = 0

C13_Witness ==
  /\ last.op = "withdraw" /\ last.result = "Ok"
  /\ last.pre.lp_supply = 2 /\ last.args.lp_amount = 2
  /\ SeqSum(last.pre.reserves) = 2
  /\ SeqSum(pools[last.pool].reserves) = 0

\* C14: after a successful Deposit with concentration c the position's
\* (min_price, max_price) are calculate_position_bounds(center_price, c) for
\* some center price: half_range = c * 5, min_price = max(0, center_price -
\* half_range), max_price = center_price + half_range.  (max_price is at least
\* center_price, which bounds the center prices to try.)
C14_DepositSetsPositionBounds ==
  (last.op = "deposit" /\ last.result = "Ok")
  => \E center_price \in 0..positions[last.pool][last.user].max_price :
       <<positions[last.pool][last.user].min_price, positions[last.pool][last.user].max_price>>
         = calculate_position_bounds(center_price, last.args.concentration)

C16_FeeBoundedAndMonotone ==
  (math # NoMath /\ math.fn = "calculate_dynamic_fee")
  => /\ math.out \in 1..5
     /\ \A other \in FeeInputs :
          /\ total_deviation(math.args.current_weights, math.args.target_weights)
               <= total_deviation(other[1], other[2])
             => math.out <= calculate_dynamic_fee(other[1], other[2])
          /\ total_deviation(other[1], other[2])
               <= total_deviation(math.args.current_weights, math.args.target_weights)
             => calculate_dynamic_fee(other[1], other[2]) <= math.out

C16_Witness ==
  /\ math # NoMath
  /\ math.fn = "calculate_dynamic_fee"
  /\ math.args.current_weights = <<3333, 4500>>
  /\ math.args.target_weights = <<5000, 5000>>
  /\ math.out = 3

\* C17: create_growth_pool succeeds only with a seed_pool account of kind
\* Seed; with one of kind Growth it returns InvalidPoolType, and then no pool
\* account exists at the requested address, no transfer and no LP mint was
\* requested, and custody and LP supply are what they were.
C17_GrowthPoolNeedsSeedReference ==
  last.op = "create_growth_pool"
  => /\ last.result = "Ok" => pools[last.args.seed_pool].pool_type = "Seed"
     /\ pools[last.args.seed_pool].pool_type = "Growth"
        => /\ last.result = "InvalidPoolType"
           /\ ~pools[last.pool].exists
           /\ last.cpis = <<>>
           /\ vault[last.pool] = last.pre.vault
           /\ lp_supply[last.pool] = last.pre.lp_supply
           /\ lp_tokens[last.pool][last.user] = 0

C17_Witness ==
  /\ last.op = "create_growth_pool"
  /\ last.pool = "g2"
  /\ last.args.seed_pool = "g1"
  /\ pools["g1"].pool_type = "Growth"
  /\ last.result = "InvalidPoolType"
  /\ ~pools["g2"].exists

\* C18: a pool's kind, Seed-pool reference, asset list, target weights and
\* amplification are what the creating instruction set (kind Seed with three
\* assets and the given weights, or kind Growth with two assets, weights
\* 5000/5000 and the referenced Seed pool; the weights sum to 10000), no later
\* step changes any of them, and the reserves keep as many entries as the
\* pool has assets.
C18_Created ==
  (last.op \in {"create_seed_pool", "create_growth_pool"} /\ last.result = "Ok")
  => LET pool == pools[last.pool]
     IN /\ pool.exists
        /\ pool.amplification = last.args.amplification
        /\ pool.target_weights = last.args.target_weights
        /\ pool.token_mints = MintsOf(last.pool)
        /\ last.op = "create_seed_pool" => pool.pool_type = "Seed" /\ pool.seed_pool = "None"
        /\ last.op = "create_growth_pool"
           => pool.pool_type = "Growth" /\ pool.seed_pool = last.args.seed_pool

C18_Shape ==
  \A p \in PoolIds :
    pools[p].exists
    => LET arity == IF pools[p].pool_type = "Seed" THEN 3 ELSE 2
       IN /\ pools[p].pool_type \in {"Seed", "Growth"}
          /\ Len(pools[p].token_mints) = arity
          /\ Len(pools[p].target_weights) = arity
          /\ SeqSum(pools[p].target_weights) = BPS
          /\ Len(pools[p].reserves) = arity

C18_Frame ==
  \A p \in PoolIds :
    pools[p].exists
    => /\ pools'[p].exists
       /\ pools'[p].pool_type = pools[p].pool_type
       /\ pools'[p].seed_pool = pools[p].seed_pool
       /\ pools'[p].token_mints = pools[p].token_mints
       /\ pools'[p].target_weights = pools[p].target_weights
       /\ pools'[p].amplification = pools[p].amplification
       /\ Len(pools'[p].reserves) = Len(pools[p].reserves)

C18_PoolConfigurationIsFixed ==
  [](C18_Created /\ C18_Shape) /\ [][C18_Frame]_vars

C18_Witness ==
  /\ last.op = "withdraw"
  /\ last.result = "Ok"
  /\ last.pool = "seed"
  /\ last.args.lp_amount > 0
  /\ pools["seed"].pool_type = "Seed"
  /\ pools["seed"].target_weights = <<3334, 3333, 3333>>
  /\ pools["seed"].amplification = 1
  /\ Len(pools["seed"].reserves) = 3
  /\ pools["seed"].reserves # last.pre.reserves

\* C19: every pool that exists has amplification at least 1, and
\* create_seed_pool or create_growth_pool called with amplification 0 does
\* not return Ok.
C19_AmplificationAtLeastOne ==
  /\ \A p \in PoolIds : pools[p].exists => pools[p].amplification >= 1
  /\ (last.op \in {"create_seed_pool", "create_growth_pool"} /\ last.args.amplification = 0)
     => last.result # "Ok"

\* C20: after every deposit, withdraw or swap that returned Ok the pool's
\* last_update is the current clock value.
C20_SuccessStampsPool ==
  (last.op \in {"deposit", "withdraw", "swap"} /\ last.result = "Ok")
  => pools[last.pool].last_update = clock

\* C21: a swap that returns Ok raises the reserve of the input asset by
\* amount_in, lowers the reserve of the output asset by the amount_out it
\* paid, which is not more than that reserve was, and leaves every other
\* reserve, the LP supply and every position as they were.
C21_SwapStep ==
  (last'.op = "swap" /\ last.op = "none" /\ last'.result = "Ok")
  => LET p == last'.pool
         token_in_idx == IndexOf(pools[p].token_mints, last'.args.token_mint_in)
         token_out_idx == IndexOf(pools[p].token_mints, last'.args.token_mint_out)
         amount_out == last'.out.amount_out
     IN /\ pools'[p].reserves[token_in_idx] = pools[p].reserves[token_in_idx] + last'.args.amount_in
        /\ amount_out <= pools[p].reserves[token_out_idx]
        /\ pools'[p].reserves[token_out_idx] = pools[p].reserves[token_out_idx] - amount_out
        /\ \A i \in 1..Len(pools[p].reserves) :
             i \notin {token_in_idx, token_out_idx} => pools'[p].reserves[i] = pools[p].reserves[i]
        /\ lp_supply' = lp_supply
        /\ positions' = positions

C21_SwapMovesTwoReserves == [][C21_SwapStep]_vars

\* C22: for positive reserves and amplification at least 1 calculate_invariant
\* returns the D of the reference iteration: each round folds
\* D_P = D_P * D / (r * n) over the reserves starting from D, takes
\* D_next = (Ann * sum + D_P * n) * D / ((Ann - 1) * D + (n + 1) * D_P), and
\* stops when |D_next - D| <= 1 or after 255 rounds.
RECURSIVE ReferenceDP(_, _, _, _, _)
ReferenceDP(reserves, n, d, i, d_p) ==
  IF i > Len(reserves) THEN d_p
  ELSE ReferenceDP(reserves, n, d, i + 1, (d_p * d) \div (reserves[i] * n))

ReferenceNext(reserves, n, sum, ann, d) ==
  LET d_p == ReferenceDP(reserves, n, d, 1, d)
      den == (ann - 1) * d + (n + 1) * d_p
  IN IF den = 0 THEN 0 ELSE ((ann * sum + d_p * n) * d) \div den

RECURSIVE ReferenceLoop(_, _, _, _, _, _)
ReferenceLoop(reserves, n, sum, ann, d, round) ==
  IF round >= NEWTON_ROUNDS THEN d
  ELSE LET d_next == ReferenceNext(reserves, n, sum, ann, d)
       IN IF AbsDiff(d_next, d) <= 1 THEN d_next
          ELSE ReferenceLoop(reserves, n, sum, ann, d_next, round + 1)

ReferenceInvariant(reserves, amplification) ==
  ReferenceLoop(reserves, Len(reserves), SeqSum(reserves),
                amplification * Len(reserves) ^ Len(reserves), SeqSum(reserves), 0)

C22_InvariantIsReferenceIteration ==
  (/\ math # NoMath
   /\ math.fn = "calculate_invariant"
   /\ Len(math.args.amounts) > 0
   /\ \A i \in 1..Len(math.args.amounts) :
        math.args.amounts[i] >= 1 /\ math.args.amounts[i] <= MaxMathValue
   /\ math.args.amplification >= 1)
  => /\ math.out.res.tag = "Some"
     /\ math.out.res.val = ReferenceInvariant(math.args.amounts, math.args.amplification)

C25_SupplyIsSumOfPositions ==
  \A p \in PoolIds :
    lp_supply[p] = positions[p]["alice"].lp_amount + positions[p]["bob"].lp_amount

\* C26: no position holds more LP than the supply of its pool's LP mint; and
\* in a withdraw that returned Ok the ratio is at most 10000 and each amount
\* paid is at most the reserve, at most the pro-rata share
\* (amount * lp_supply <= reserve * lp_amount), and is subtracted from the
\* reserve in full.
C26_WithdrawWithinShare ==
  /\ \A p \in PoolIds : \A u \in Users : positions[p][u].lp_amount <= lp_supply[p]
  /\ (last.op = "withdraw" /\ last.result = "Ok")
     => /\ last.out.ratio <= BPS
        /\ Len(last.out.amounts) = Len(last.pre.reserves)
        /\ \A i \in 1..Len(last.pre.reserves) :
             /\ last.out.amounts[i] <= last.pre.reserves[i]
             /\ last.out.amounts[i] * last.pre.lp_supply
                  <= last.pre.reserves[i] * last.args.lp_amount
             /\ pools[last.pool].reserves[i] = last.pre.reserves[i] - last.out.amounts[i]

C26_Witness ==
  /\ last.op = "withdraw"
  /\ last.result = "Ok"
  /\ last.args.lp_amount = 1
  /\ last.pre.lp_supply = 3
  /\ last.pre.reserves = <<1, 2, 1>>
  /\ last.out.ratio = 3333
  /\ last.out.amounts = <<0, 0, 0>>

\* C27: a withdrawal of exactly the LP amount a successful deposit minted,
\* made by the depositor right after it, pays out in total (the withdrawal
\* amounts summed over the assets, and the custody that left the pool) no
\* more than the deposit put in.
C27_Held(v) == v["A"] + v["B"] + v["C"] + v["S"] + v["P"]

C27_DepositThenWithdrawGainsNothing ==
  (last.op = "withdraw_back" /\ last.result = "Ok")
  => /\ SeqSum(last.out.amounts) <= SeqSum(last.args.first.amounts)
     /\ C27_Held(last.pre.vault) - C27_Held(vault[last.pool]) <= SeqSum(last.args.first.amounts)

C27_Witness ==
  /\ last.op = "withdraw_back"
  /\ last.result = "Ok"
  /\ last.args.first.reserves = <<1, 1, 1>>
  /\ last.args.first.amounts = <<1, 1, 1>>
  /\ last.args.lp_amount > 0
  /\ SeqSum(last.out.amounts) = 3
  /\ C27_Held(last.pre.vault) - C27_Held(vault[last.pool]) = 3

====
